---- MODULE Spec2Model ----
(***************************************************************************)
(* Content-calendar approval engine: the content_calendar table, the      *)
(* lifecycle actions of PATCH /api/calendar/[id], the batch approval and   *)
(* auto-scheduler of POST /api/calendar/approve and the workflow           *)
(* dispatcher of POST /api/calendar/[id]/generate.                         *)
(*                                                                         *)
(* Every supabase call is one atomic step of the store; a handler that     *)
(* awaits several calls is a process whose steps interleave with the       *)
(* steps of the other requests.                                            *)
(***************************************************************************)
EXTENDS Integers, Sequences, FiniteSets, TLC

VARIABLES
    store,        \* the content_calendar table: a function id -> row, DOMAIN = ids present
    now,          \* the wall clock read by new Date() / Date.now()
    githubToken,  \* whether import.meta.env.GITHUB_TOKEN is configured
    procs,        \* the in-flight multi-call requests, one record per request slot
    triggered,    \* per entry id, the accepted repository_dispatch calls so far
    last          \* the most recent step: what ran, on which id, the table before it, its response

vars == <<store, now, githubToken, procs, triggered, last>>

----------------------------------------------------------------------------
(* Bounds of the model *)

MaxClock == 2
DayLen == 2
MaxPerDay == 2

(* the ids a request may name, and the request slots *)
Ids == {1, 2, 3}
Procs == {"p1", "p2"}

(* null of a numeric / timestamp / date column, and of a text column *)
NULL == -1
NullStr == "null"
Undefined == "undefined"

Statuses == {"suggested", "approved", "scheduled", "generating",
             "in_progress", "published", "failed", "rejected"}

Approvers == {"alice"}

----------------------------------------------------------------------------
(* Rows of content_calendar *)

Row(kw, st, pd, ps) ==
    [keyword |-> kw, status |-> st, planned_date |-> pd, priority_score |-> ps,
     approved_at |-> NULL, approved_by |-> NullStr, decline_reason |-> NullStr,
     generation_started_at |-> NULL]

(* the keyword of the seeded entry with this id: one keyword per entry *)
KeywordOf(id) == "kw" \o ToString(id)

(* new Date(...).toISOString().split('T')[0]: the calendar day of an instant *)
IsoDate(t) == t \div DayLen

(* new Date('YYYY-MM-DD'): the instant at which that calendar day starts *)
ParseDate(d) == d * DayLen

----------------------------------------------------------------------------
(* The supabase query builder, as far as the handlers use it *)

(* .update(f).in('id', ids).in('status', sts): the ids the filters match *)
Matching(S, ids, sts) == {i \in ids \cap DOMAIN S : S[i].status \in sts}

(* .update(f).eq('id', id) with no status filter *)
MatchingId(S, id) == {id} \cap DOMAIN S

(* the table after an update: new holds the matched rows as rewritten *)
Updated(S, new) == [i \in DOMAIN S |-> IF i \in DOMAIN new THEN new[i] ELSE S[i]]

(* .single(): exactly one row is data, anything else is error PGRST116 *)
SingleIsError(hit) == Cardinality(hit) # 1

----------------------------------------------------------------------------
(* The record of the step just taken *)

Step(op, proc, id, arg, res) ==
    [op |-> op, proc |-> proc, id |-> id, arg |-> arg, before |-> store,
     res |-> res, at |-> now]

NoStep == [op |-> "none", proc |-> "none", id |-> 0, arg |-> NullStr, before |-> store,
           res |-> "none", at |-> now]

----------------------------------------------------------------------------
(* PATCH /api/calendar/[id] with an action: approve, reject, reschedule *)

(* the status filter of each conditional update *)
ApprovableStatuses == {"suggested", "rejected"}
RejectableStatusesWide == {"suggested", "approved", "scheduled"}
RejectableStatuses == {"suggested", "approved"}
SchedulableStatuses == {"approved", "scheduled"}

(* approveEntry(id, approver = 'api'): the default of a missing approver *)
ApproverOrDefault(approver) == IF approver = Undefined THEN "api" ELSE approver

(* the fields approveEntry writes *)
ApproveFields(row, approver, t) ==
    [row EXCEPT !.status = "approved", !.approved_at = t, !.approved_by = approver]

RejectFieldsClearing(row, declineReason) ==
    [row EXCEPT !.status = "rejected", !.approved_at = NULL, !.approved_by = NullStr,
                !.decline_reason = IF declineReason = Undefined THEN NullStr
                                   ELSE declineReason]
(* the fields rejectEntry writes: decline_reason only when one is given *)
RejectFields(row, declineReason) ==
    LET cleared == [row EXCEPT !.status = "rejected", !.approved_at = NULL,
                               !.approved_by = NullStr]
    IN  IF declineReason \notin {NullStr, Undefined, ""}
        THEN [cleared EXCEPT !.decline_reason = declineReason]
        ELSE cleared

(* the fields rescheduleEntry writes *)
RescheduleFields(row, plannedDate) ==
    [row EXCEPT !.planned_date = plannedDate, !.status = "scheduled"]

(* What an action helper answers after .update(...).select().single(): the   *)
(* error of .single() is thrown and PATCH's catch turns it into a 500; a     *)
(* missing data with no error is the 400 "not in ...able state"; else 200.   *)
ActionResponse(hit) ==
    IF SingleIsError(hit) THEN "InternalError"
    ELSE IF hit = {} THEN "InvalidTransition"
    ELSE "ok"

approveEntry(id, approver) ==
    LET hit == Matching(store, {id}, ApprovableStatuses)
        who == ApproverOrDefault(approver)
    IN  /\ store' = Updated(store, [i \in hit |-> ApproveFields(store[i], who, now)])
        /\ last' = Step("approve", "none", id, who, ActionResponse(hit))
        /\ UNCHANGED <<now, githubToken, procs, triggered>>

rejectEntry(id, declineReason) ==
    LET hit == Matching(store, {id}, RejectableStatuses)
    IN  /\ store' = Updated(store, [i \in hit |-> RejectFields(store[i], declineReason)])
        /\ last' = Step("reject", "none", id, declineReason, ActionResponse(hit))
        /\ UNCHANGED <<now, githubToken, procs, triggered>>

(* !plannedDate: a missing, null or empty planned_date *)
NoDate(plannedDate) == plannedDate = NULL

rescheduleEntry(id, plannedDate) ==
    IF NoDate(plannedDate)
    THEN /\ last' = Step("reschedule", "none", id, plannedDate, "MissingDate")
         /\ UNCHANGED <<store, now, githubToken, procs, triggered>>
    ELSE LET hit == Matching(store, {id}, SchedulableStatuses)
         IN  /\ store' = Updated(store,
                                  [i \in hit |-> RescheduleFields(store[i], plannedDate)])
             /\ last' = Step("reschedule", "none", id, plannedDate, ActionResponse(hit))
             /\ UNCHANGED <<now, githubToken, procs, triggered>>

(* const updateData = { ...body } without id, created_at, updated_at *)
UpdateData(body) == [f \in DOMAIN body \ {"id", "created_at", "updated_at"} |-> body[f]]

(* .update(updateData): the columns the body names take the body's values *)
UpdateFields(row, updateData) ==
    [f \in DOMAIN row |-> IF f \in DOMAIN updateData THEN updateData[f] ELSE row[f]]

(* the rows the regular update matches: .eq('id', id) *)
UpdateMatching(S, id) == MatchingId(S, id)

(* lines 122-142: PGRST116 is answered 404 *)
UpdateResponse(hit) == IF SingleIsError(hit) THEN "NotFound" ELSE "ok"

(* PATCH /api/calendar/[id] with no action in the body, lines 109-142 *)
PATCH(id, body) ==
    /\ "action" \notin DOMAIN body
    /\ LET hit == UpdateMatching(store, id)
       IN  /\ store' = Updated(store, [i \in hit |-> UpdateFields(store[i], UpdateData(body))])
           /\ last' = Step("update", "none", id, body, UpdateResponse(hit))
    /\ UNCHANGED <<now, githubToken, procs, triggered>>

(* the clock advances between requests *)
Tick ==
    /\ now < MaxClock
    /\ now' = now + 1
    /\ UNCHANGED <<store, githubToken, procs, triggered, last>>


----------------------------------------------------------------------------
(* Request slots: a handler that awaits several store calls *)

Idle == [op |-> "idle", pc |-> "idle", id |-> 0, snap |-> <<>>, res |-> "none",
         wrote |-> FALSE, called |-> "none",
         ids |-> {}, approved |-> <<>>, scheduledUpdates |-> <<>>,
         queue |-> <<>>, scheduled |-> <<>>, failed |-> 0, body |-> <<>>]

(* the handler has returned its Response; the slot is free for the next request *)
Finish(p) ==
    /\ procs[p].pc = "done"
    /\ procs' = [procs EXCEPT ![p] = Idle]
    /\ last' = Step("finish", p, procs[p].id, NullStr, procs[p].res)
    /\ UNCHANGED <<store, now, githubToken, triggered>>

----------------------------------------------------------------------------
(* POST /api/calendar/[id]/generate: the workflow dispatcher *)

DispatchableStatusesWide == {"suggested", "approved", "scheduled", "failed"}
DispatchableStatuses == {"suggested", "approved", "scheduled"}

(* lines 45-65: the two checks on the entry that was read, in program order *)
DispatchCheck(status) ==
    IF status \notin DispatchableStatuses THEN "InvalidTransition"
    ELSE IF status = "generating" THEN "AlreadyGenerating"
    ELSE "ok"

(* lines 26-65: read the entry, answer 404 / 400 or go on to the update *)
DispatchRead(p, id) ==
    /\ procs[p].pc = "idle"
    /\ LET found == id \in DOMAIN store
           check == IF found THEN DispatchCheck(store[id].status) ELSE "NotFound"
       IN  /\ procs' = [procs EXCEPT ![p] =
                  [Idle EXCEPT !.op = "dispatch", !.id = id,
                               !.snap = IF found THEN <<store[id]>> ELSE <<>>,
                               !.pc = IF check = "ok" THEN "write" ELSE "done",
                               !.res = IF check = "ok" THEN "none" ELSE check]]
           /\ last' = Step("dispatch_read", p, id, NullStr, check)
    /\ UNCHANGED <<store, now, githubToken, triggered>>

(* the fields the dispatcher writes *)
GeneratingFields(row, t) ==
    [row EXCEPT !.status = "generating", !.generation_started_at = t]

(* the rows the dispatcher's update matches: .eq('id', id) *)
DispatchMatching(S, id) == MatchingId(S, id)

(* lines 67-78: the update to generating *)
DispatchWrite(p) ==
    /\ procs[p].op = "dispatch" /\ procs[p].pc = "write"
    /\ LET id == procs[p].id
           hit == DispatchMatching(store, id)
       IN  /\ store' = Updated(store, [i \in hit |-> GeneratingFields(store[i], now)])
           /\ last' = Step("dispatch_write", p, id, NullStr, "none")
    /\ procs' = [procs EXCEPT ![p].pc = "trigger", ![p].wrote = TRUE]
    /\ UNCHANGED <<now, githubToken, triggered>>

(* what the dispatcher answers once the update went through, whatever the trigger did *)
DispatchResponse(called) == "ok"

AfterTriggerFailureRevert(S, id) ==
    [i \in DOMAIN S |-> IF i = id THEN [S[i] EXCEPT !.status = "approved"] ELSE S[i]]
(* what the dispatcher does to the table when the trigger failed: nothing *)
AfterTriggerFailure(S, id) == S

(* lines 80-136: the repository_dispatch call, when a token is configured, and *)
(* the 200 response; a failed call is caught and logged                        *)
DispatchTrigger(p, accepted) ==
    /\ procs[p].op = "dispatch" /\ procs[p].pc = "trigger"
    /\ LET id == procs[p].id
           called == IF ~githubToken THEN "notoken"
                     ELSE IF accepted THEN "ok" ELSE "failed"
       IN  /\ triggered' = IF called = "ok"
                           THEN [triggered EXCEPT ![id] = @ + 1] ELSE triggered
           /\ store' = IF called = "ok" THEN store ELSE AfterTriggerFailure(store, id)
           /\ procs' = [procs EXCEPT ![p].pc = "done", ![p].called = called,
                                     ![p].res = DispatchResponse(called)]
           /\ last' = Step("dispatch_trigger", p, id, called, DispatchResponse(called))
    /\ UNCHANGED <<now, githubToken>>

----------------------------------------------------------------------------
(* DELETE /api/calendar/[id] *)

DeleteCheckNone(snap) == "ok"
(* entry?.status === 'published', on the row that was read, if any *)
DeleteCheck(snap) ==
    IF snap # <<>> /\ snap[1].status = "published" THEN "Immutable" ELSE "ok"

(* lines 163-178: read the entry's status; a published entry is answered 400 *)
DeleteRead(p, id) ==
    /\ procs[p].pc = "idle"
    /\ LET snap == IF id \in DOMAIN store THEN <<store[id]>> ELSE <<>>
           check == DeleteCheck(snap)
       IN  /\ procs' = [procs EXCEPT ![p] =
                  [Idle EXCEPT !.op = "delete", !.id = id, !.snap = snap,
                               !.pc = IF check = "ok" THEN "write" ELSE "done",
                               !.res = IF check = "ok" THEN "none" ELSE check]]
           /\ last' = Step("delete_read", p, id, NullStr, check)
    /\ UNCHANGED <<store, now, githubToken, triggered>>

(* the rows the delete matches: .eq('id', id) *)
DeleteMatching(S, id) == MatchingId(S, id)

(* the table without the rows that were hit *)
Deleted(S, hit) == [i \in DOMAIN S \ hit |-> S[i]]

(* a delete without .select() reports no error, whatever it matched *)
DeleteResponse(hit) == "ok"

(* lines 180-204: the delete itself and the 200 response *)
DeleteWrite(p) ==
    /\ procs[p].op = "delete" /\ procs[p].pc = "write"
    /\ LET id == procs[p].id
           hit == DeleteMatching(store, id)
       IN  /\ store' = Deleted(store, hit)
           /\ procs' = [procs EXCEPT ![p].pc = "done", ![p].wrote = TRUE,
                                     ![p].res = DeleteResponse(hit)]
           /\ last' = Step("delete_write", p, id, NullStr, DeleteResponse(hit))
    /\ UNCHANGED <<now, githubToken, triggered>>

----------------------------------------------------------------------------
(* POST /api/calendar: create an entry *)

(* Math.max(a, b) *)
Max(a, b) == IF a >= b THEN a ELSE b

(* a null operand of <, <=, >= counts as 0 *)
ToNumber(x) == IF x = NULL THEN 0 ELSE x

(* the boost for low competition, in tenths: 1.5, 1.2 or none *)
CompetitionBoost(competitorCount) ==
    IF ToNumber(competitorCount) <= 3 THEN 15
    ELSE IF ToNumber(competitorCount) <= 5 THEN 12 ELSE 10

SweetSpotBoostOpen(difficulty) == IF difficulty > 30 /\ difficulty < 50 THEN 13 ELSE 10
(* the boost for a difficulty of 30 to 50, in tenths: 1.3 or none *)
SweetSpotBoost(difficulty) == IF difficulty >= 30 /\ difficulty <= 50 THEN 13 ELSE 10

(* the penalty for a difficulty above 70, in tenths: 0.5 or none *)
DifficultyPenalty(difficulty) == IF difficulty > 70 THEN 5 ELSE 10

(* Math.round of the exact fraction num / den, den > 0: a half goes up *)
RoundHalfUp(num, den) == (2 * num + den) \div (2 * den)

(* the inputs <<volume, difficulty, competition boost>> whose exact score ends *)
(* in a half while the product of doubles falls short of it: 11 / 39 * 10 *   *)
(* 1.5 * 1.3 is 5.499999999999999 and not 5.5                                 *)
DoubleFallsShort == {<<11, 39, 15>>}

(* Math.round(Math.min(score, 100)) for the score num / den *)
RoundMin(num, den, short) ==
    IF num > 100 * den THEN 100
    ELSE IF short THEN RoundHalfUp(num, den) - 1 ELSE RoundHalfUp(num, den)

(* the factors are tenths, so the score is num / den with den = max(d, 1) * 1000 *)
calculateOpportunityScore(volume, difficulty, competitorCount) ==
    IF volume = NULL \/ volume = 0 \/ difficulty = NULL \/ difficulty = 0 THEN 0
    ELSE LET num == volume * 10 * CompetitionBoost(competitorCount)
                           * SweetSpotBoost(difficulty) * DifficultyPenalty(difficulty)
             den == Max(difficulty, 1) * 1000
         IN  RoundMin(num, den, <<volume, difficulty, CompetitionBoost(competitorCount)>>
                                    \in DoubleFallsShort)

(* x || 0, x || 50, x || null for a number *)
NumberOr(x, default) == IF x = NULL \/ x = 0 THEN default ELSE x

(* body.status || 'suggested' *)
StatusOrSuggested(status) ==
    IF status \in {NullStr, Undefined, ""} THEN "suggested" ELSE status

(* lines 165-183: the row the insert writes *)
NewRow(body) ==
    Row(body.keyword, StatusOrSuggested(body.status), body.planned_date,
        calculateOpportunityScore(NumberOr(body.search_volume, 0),
                                  NumberOr(body.difficulty, 50), 0))

(* the rows the duplicate check matches: .eq('keyword', body.keyword) *)
KeywordMatching(S, keyword) == {i \in DOMAIN S : S[i].keyword = keyword}

(* lines 136-162: validation and the duplicate check; existing is the row of *)
(* .single(), null unless exactly one row matches                            *)
CreateCheck(p, body) ==
    /\ procs[p].pc = "idle"
    /\ LET hit == KeywordMatching(store, body.keyword)
           check == IF body.keyword \in {NullStr, Undefined, ""} THEN "ValidationError"
                    ELSE IF ~SingleIsError(hit) THEN "DuplicateKey"
                    ELSE "ok"
       IN  /\ procs' = [procs EXCEPT ![p] =
                  [Idle EXCEPT !.op = "create", !.body = body,
                               !.pc = IF check = "ok" THEN "insert" ELSE "done",
                               !.res = IF check = "ok" THEN "none" ELSE check]]
           /\ last' = Step("create_check", p, 0, body.keyword, check)
    /\ UNCHANGED <<store, now, githubToken, triggered>>

(* an id the store has not handed out: not in the table, not held by a request *)
FreshIds(ids) ==
    {i \in ids \ DOMAIN store : \A q \in Procs : procs[q].id # i /\ i \notin procs[q].ids}

(* lines 171-202: the insert and the 201 response *)
CreateInsert(p, id) ==
    /\ procs[p].op = "create" /\ procs[p].pc = "insert"
    /\ id \in FreshIds(Ids)
    /\ store' = [i \in DOMAIN store \cup {id} |->
                    IF i = id THEN NewRow(procs[p].body) ELSE store[i]]
    /\ procs' = [procs EXCEPT ![p].pc = "done", ![p].id = id, ![p].wrote = TRUE,
                              ![p].res = "ok"]
    /\ last' = Step("create_insert", p, id, procs[p].body.keyword, "ok")
    /\ UNCHANGED <<now, githubToken, triggered>>

----------------------------------------------------------------------------
(* POST /api/calendar/approve: batch approval and the auto-scheduler *)

(* body.approver || 'batch_api' *)
BatchApproverOrDefault(approver) ==
    IF approver \in {Undefined, NullStr, ""} THEN "batch_api" ELSE approver

BatchMatchingAnyStatus(S, ids) == ids \cap DOMAIN S
(* the rows the bulk update matches: .in('id', ids).in('status', [...]) *)
BatchMatching(S, ids) == Matching(S, ids, ApprovableStatuses)

(* the orders in which .select() may return the updated rows *)
Orders(hit) ==
    {o \in [1..Cardinality(hit) -> hit] : \A i, j \in DOMAIN o : i # j => o[i] # o[j]}

(* the returned rows, each with its id, in the returned order *)
Returned(S, order) == [k \in DOMAIN order |-> [id |-> order[k], row |-> S[order[k]]]]

(* body.per_day || 1 *)
PerDayOrDefault(perDay) == IF perDay = NULL \/ perDay = 0 THEN 1 ELSE perDay

(* body.schedule_start_date ? new Date(it) : new Date(Date.now() + 24h) *)
StartInstant(startDate, t) == IF startDate = NULL THEN t + DayLen ELSE ParseDate(startDate)

ScoreOrRaw(ps) == ps
(* (x.priority_score || 0) *)
ScoreOrZero(ps) == IF ps = NULL THEN 0 ELSE ps

(* the comparator of the sort is negative: a goes before b *)
SortsBefore(a, b) == ScoreOrZero(b.row.priority_score) - ScoreOrZero(a.row.priority_score) < 0

(* Array.prototype.sort is stable: e goes after every element that does not *)
(* sort strictly after it                                                   *)
RECURSIVE InsertSorted(_, _)
InsertSorted(sorted, e) ==
    IF sorted = <<>> THEN <<e>>
    ELSE IF SortsBefore(e, Head(sorted)) THEN <<e>> \o sorted
    ELSE <<Head(sorted)>> \o InsertSorted(Tail(sorted), e)

RECURSIVE SortByPriority(_)
SortByPriority(rows) ==
    IF rows = <<>> THEN <<>>
    ELSE InsertSorted(SortByPriority(SubSeq(rows, 1, Len(rows) - 1)), rows[Len(rows)])

(* currentDate.setDate(currentDate.getDate() + 1) *)
NextDay(t) == t + DayLen

(* dailyCount >= perDay, after dailyCount++ *)
DayIsFullStrict(dailyCount, perDay) == dailyCount > perDay
DayIsFull(dailyCount, perDay) == dailyCount >= perDay

(* lines 76-94: the loop that assigns a date to each sorted entry *)
RECURSIVE AssignDates(_, _, _, _)
AssignDates(sorted, currentDate, dailyCount, perDay) ==
    IF sorted = <<>> THEN <<>>
    ELSE LET update == [id |-> Head(sorted).id, planned_date |-> IsoDate(currentDate),
                        status |-> "scheduled"]
             counted == dailyCount + 1
         IN  IF DayIsFull(counted, perDay)
             THEN <<update>> \o AssignDates(Tail(sorted), NextDay(currentDate), 0, perDay)
             ELSE <<update>> \o AssignDates(Tail(sorted), currentDate, counted, perDay)

ShouldScheduleAlways(autoSchedule, approved) == Len(approved) > 0
(* body.auto_schedule && approved.length > 0 *)
ShouldSchedule(autoSchedule, approved) == autoSchedule /\ Len(approved) > 0

FailedCountNone(ids, approved) == 0
(* body.ids.length - approved.length *)
FailedCount(ids, approved) == Cardinality(ids) - Len(approved)

(* lines 29-94 and, with nothing to schedule, 114-135: validation, the bulk *)
(* approval and the computation of the scheduled updates                    *)
BatchApprove(p, ids, approver, autoSchedule, startDate, perDay, order) ==
    /\ procs[p].pc = "idle"
    /\ IF ids = {}
       THEN /\ procs' = [procs EXCEPT ![p] =
                   [Idle EXCEPT !.op = "batch", !.pc = "done", !.res = "ValidationError"]]
            /\ last' = Step("batch_approve", p, 0, NullStr, "ValidationError")
            /\ UNCHANGED store
       ELSE LET hit == BatchMatching(store, ids)
                who == BatchApproverOrDefault(approver)
                after == Updated(store, [i \in hit |-> ApproveFields(store[i], who, now)])
                approved == Returned(after, order)
                updates == IF ShouldSchedule(autoSchedule, approved)
                           THEN AssignDates(SortByPriority(approved),
                                            StartInstant(startDate, now), 0,
                                            PerDayOrDefault(perDay))
                           ELSE <<>>
            IN  /\ order \in Orders(hit)
                /\ store' = after
                /\ procs' = [procs EXCEPT ![p] =
                       [Idle EXCEPT !.op = "batch", !.ids = ids, !.approved = approved,
                                    !.body = [auto_schedule |-> autoSchedule,
                                              schedule_start_date |-> startDate,
                                              per_day |-> perDay],
                                    !.scheduledUpdates = updates, !.queue = updates,
                                    !.failed = FailedCount(ids, approved),
                                    !.pc = IF updates = <<>> THEN "done" ELSE "schedule",
                                    !.res = IF updates = <<>> THEN "ok" ELSE "none"]]
                /\ last' = Step("batch_approve", p, 0, who, "ok")
    /\ UNCHANGED <<now, githubToken, triggered>>

(* the fields one scheduling update writes *)
ScheduleFields(row, update) ==
    [row EXCEPT !.planned_date = update.planned_date, !.status = update.status]

(* the rows one scheduling update matches: .eq('id', update.id) *)
ScheduleMatching(S, id) == MatchingId(S, id)

RemainingUnlessFailed(queue, failedWrite) == IF failedWrite THEN <<>> ELSE Tail(queue)
(* for (const update of updates): the loop goes on to the next update whether *)
(* or not this one was written                                                *)
Remaining(queue, failedWrite) == Tail(queue)

(* lines 96-111, one turn of the loop, and after the last one lines 114-135: *)
(* the store may refuse the write (dbOk false), and .single() is an error    *)
(* when the row is gone; either way the loop goes on. queue is the part of   *)
(* scheduledUpdates the loop has not reached                                   *)
BatchSchedule(p, dbOk) ==
    /\ procs[p].op = "batch" /\ procs[p].pc = "schedule"
    /\ LET update == Head(procs[p].queue)
           hit == IF dbOk THEN ScheduleMatching(store, update.id) ELSE {}
           rest == Remaining(procs[p].queue, SingleIsError(hit))
           after == Updated(store, [i \in hit |-> ScheduleFields(store[i], update)])
           data == IF SingleIsError(hit) THEN <<>>
                   ELSE <<[id |-> update.id, row |-> after[update.id]]>>
       IN  /\ store' = after
           /\ procs' = [procs EXCEPT ![p].queue = rest,
                                     ![p].scheduled = @ \o data,
                                     ![p].pc = IF rest = <<>> THEN "done" ELSE "schedule",
                                     ![p].res = IF rest = <<>> THEN "ok" ELSE "none"]
           /\ last' = Step("batch_schedule", p, update.id, update.planned_date,
                           IF ~dbOk THEN "refused"
                           ELSE IF SingleIsError(hit) THEN "skipped" ELSE "ok")
    /\ UNCHANGED <<now, githubToken, triggered>>

----------------------------------------------------------------------------
(* GET /api/calendar and GET /api/calendar/approve: what the lists add to a row *)

EstimatedCTRInclusive(difficulty) ==
    IF ToNumber(difficulty) <= 30 THEN 100
    ELSE IF ToNumber(difficulty) <= 50 THEN 50
    ELSE IF ToNumber(difficulty) <= 70 THEN 20
    ELSE 5
(* the click-through rate for a difficulty, in thousandths *)
EstimatedCTR(difficulty) ==
    IF ToNumber(difficulty) < 30 THEN 100
    ELSE IF ToNumber(difficulty) < 50 THEN 50
    ELSE IF ToNumber(difficulty) < 70 THEN 20
    ELSE 5

calculateEstimatedTraffic(searchVolume, difficulty) ==
    IF searchVolume = NULL \/ searchVolume = 0 THEN 0
    ELSE RoundHalfUp(searchVolume * EstimatedCTR(difficulty), 1000)

getDifficultyLabel(difficulty) ==
    IF difficulty = NULL \/ difficulty = 0 THEN "Unknown"
    ELSE IF difficulty < 30 THEN "Easy"
    ELSE IF difficulty < 50 THEN "Medium"
    ELSE IF difficulty < 70 THEN "Hard"
    ELSE "Very Hard"

(* index.js lines 86-93: the list computes the score of an entry from its columns *)
OpportunityScore(volume, difficulty, competitorCount) ==
    /\ last' = Step("opportunity_score", "none", 0, <<volume, difficulty, competitorCount>>,
                    calculateOpportunityScore(volume, difficulty, competitorCount))
    /\ UNCHANGED <<store, now, githubToken, procs, triggered>>

(* part_001 lines 184-187: the pending list estimates the traffic of an entry *)
EstimatedTraffic(searchVolume, difficulty) ==
    /\ last' = Step("estimated_traffic", "none", 0, <<searchVolume, difficulty>>,
                    calculateEstimatedTraffic(searchVolume, difficulty))
    /\ UNCHANGED <<store, now, githubToken, procs, triggered>>

(* part_001 line 188: and labels its difficulty *)
DifficultyLabel(difficulty) ==
    /\ last' = Step("difficulty_label", "none", 0, <<difficulty>>,
                    getDifficultyLabel(difficulty))
    /\ UNCHANGED <<store, now, githubToken, procs, triggered>>

----------------------------------------------------------------------------
(* GET /api/calendar/stats *)

(* .select('id', { count: 'exact', head: true }).eq('status', st) *)
CountIn(S, st) == Cardinality({i \in DOMAIN S : S[i].status = st})

(* the scheduled entries whose planned_date is the day of the request *)
TodayScheduled(S, t) ==
    {i \in DOMAIN S : S[i].status = "scheduled" /\ S[i].planned_date = IsoDate(t)}

(* the statuses the handler counts *)
CountedStatuses == {"suggested", "approved", "scheduled", "published"}

(* lines 262-310: the counts and one of today's scheduled entries, 0 for none *)
Stats(pick) ==
    /\ IF TodayScheduled(store, now) = {} THEN pick = 0
       ELSE pick \in TodayScheduled(store, now)
    /\ last' = Step("stats", "none", pick, NullStr,
                    [counts |-> [st \in CountedStatuses |-> CountIn(store, st)],
                     todayScheduled |-> pick])
    /\ UNCHANGED <<store, now, githubToken, procs, triggered>>

----------------------------------------------------------------------------
(* The external generation workflow, seen through the status column *)

WorkflowNext(status) ==
    CASE status = "generating" -> {"in_progress", "failed"}
      [] status = "in_progress" -> {"published", "failed"}
      [] OTHER -> {}

WorkflowStep(id, st) ==
    /\ id \in DOMAIN store
    /\ st \in WorkflowNext(store[id].status)
    /\ store' = [store EXCEPT ![id].status = st]
    /\ last' = Step("workflow", "none", id, st, "none")
    /\ UNCHANGED <<now, githubToken, procs, triggered>>

----------------------------------------------------------------------------
(* Initial tables: rows as POST /api/calendar inserts them *)

SeedRows(id, sts, scores) == {Row(KeywordOf(id), st, NULL, ps) : st \in sts, ps \in scores}

SeedStores(ids, sts, scores) ==
    UNION {{S \in [D -> UNION {SeedRows(i, sts, scores) : i \in D}] :
              \A i \in D : S[i] \in SeedRows(i, sts, scores)} : D \in SUBSET ids}

InitWith(stores, tokens) ==
    /\ store \in stores
    /\ now = 0
    /\ githubToken \in tokens
    /\ procs = [p \in Procs |-> Idle]
    /\ triggered = [i \in Ids |-> 0]
    /\ last = NoStep

----------------------------------------------------------------------------
(* The lifecycle actions alone, on every seeded table *)

(* two entries: the one a request names and a bystander *)
LifecycleIds == {1, 2}

InitLifecycle == InitWith(SeedStores(LifecycleIds, Statuses, {50}), {TRUE})

NextLifecycle ==
    \/ \E id \in LifecycleIds, approver \in Approvers \cup {Undefined} :
           approveEntry(id, approver)
    \/ \E id \in LifecycleIds, reason \in {"r1", NullStr} : rejectEntry(id, reason)
    \/ \E id \in LifecycleIds, d \in {1, NULL} : rescheduleEntry(id, d)
    \/ Tick

SpecLifecycle == InitLifecycle /\ [][NextLifecycle]_vars


----------------------------------------------------------------------------
(* One batch approval per behaviour, on every seeded table, the store *)
(* accepting every write                                              *)

BatchIds == {1, 2, 3}

InitBatch == InitWith(SeedStores(BatchIds, {"suggested", "rejected", "approved"},
                                 {NULL, 10, 50}), {TRUE})

NextBatch ==
    \/ \E ids \in SUBSET BatchIds :
         \E order \in Orders(BatchMatching(store, ids)) :
           BatchApprove("p1", ids, Undefined, FALSE, NULL, NULL, order)
    \/ \E ids \in SUBSET BatchIds, startDate \in {NULL, 2}, perDay \in 0..MaxPerDay :
         \E order \in Orders(BatchMatching(store, ids)) :
           BatchApprove("p1", ids, Undefined, TRUE, startDate, perDay, order)
    \/ BatchSchedule("p1", TRUE)

SpecBatch == InitBatch /\ [][NextBatch]_vars

----------------------------------------------------------------------------
(* One auto-scheduling batch whose writes the store may refuse, racing a *)
(* reject, a delete and a dispatch of the same entries                   *)

BatchRaceIds == {1, 2}

InitBatchRace == InitWith(SeedStores(BatchRaceIds, {"suggested", "approved"},
                                     {NULL, 0, 10}), {TRUE})

NextBatchRace ==
    \/ \E ids \in SUBSET BatchRaceIds, perDay \in 1..MaxPerDay :
         \E order \in Orders(BatchMatching(store, ids)) :
           BatchApprove("p1", ids, "alice", TRUE, NULL, perDay, order)
    \/ \E dbOk \in BOOLEAN : BatchSchedule("p1", dbOk)
    \/ \E id \in BatchRaceIds : rejectEntry(id, NullStr)
    \/ \E id \in BatchRaceIds : DeleteRead("p2", id)
    \/ DeleteWrite("p2")
    \/ \E id \in BatchRaceIds : DispatchRead("p2", id)
    \/ DispatchWrite("p2")
    \/ DispatchTrigger("p2", TRUE)

SpecBatchRace == InitBatchRace /\ [][NextBatchRace]_vars

----------------------------------------------------------------------------
(* Two batch approvals by different approvers, one request each, over id *)
(* sets that may overlap, and nothing else                               *)

BatchPairIds == {1, 2}

(* body.approver of the request each slot handles *)
PairApprover == [p1 |-> "alice", p2 |-> "bob"]

InitBatchPair == InitWith(SeedStores(BatchPairIds, {"suggested", "rejected", "approved"},
                                     {NULL, 10}), {TRUE})

NextBatchPair ==
    \/ \E p \in Procs, ids \in (SUBSET BatchPairIds) \ {{}}, autoSchedule \in BOOLEAN,
          perDay \in 1..MaxPerDay :
         \E order \in Orders(BatchMatching(store, ids)) :
           BatchApprove(p, ids, PairApprover[p], autoSchedule, NULL, perDay, order)
    \/ \E p \in Procs, dbOk \in BOOLEAN : BatchSchedule(p, dbOk)

SpecBatchPair == InitBatchPair /\ [][NextBatchPair]_vars

----------------------------------------------------------------------------
(* Requests that name one entry, on tables where the entry may be missing *)

UnknownIds == {1, 2}

InitUnknown == InitWith(SeedStores(UnknownIds, Statuses, {50}), BOOLEAN)

NextUnknown ==
    \/ \E id \in UnknownIds : approveEntry(id, "alice")
    \/ \E id \in UnknownIds : rejectEntry(id, "r1")
    \/ \E id \in UnknownIds : rescheduleEntry(id, 1)
    \/ \E id \in UnknownIds : DeleteRead("p1", id)
    \/ DeleteWrite("p1")
    \/ \E id \in UnknownIds : DispatchRead("p1", id)
    \/ DispatchWrite("p1")
    \/ \E accepted \in BOOLEAN : DispatchTrigger("p1", accepted)
    \/ Finish("p1")

SpecUnknown == InitUnknown /\ [][NextUnknown]_vars

----------------------------------------------------------------------------
(* Regular updates among the lifecycle actions *)

UpdateIds == {1, 2}

(* request bodies with no action: lifecycle columns, read-only columns, a date *)
UpdateBodies ==
    {[status |-> "published"], [status |-> "approved"],
     [approved_by |-> "mallory"], [approved_at |-> NULL],
     [id |-> 2, created_at |-> 0], [planned_date |-> 1]}

InitUpdate == InitWith(SeedStores(UpdateIds, {"suggested", "approved", "published"}, {50}),
                       {TRUE})

NextUpdate ==
    \/ \E id \in UpdateIds, body \in UpdateBodies : PATCH(id, body)
    \/ \E id \in UpdateIds : approveEntry(id, "alice")
    \/ \E id \in UpdateIds : rejectEntry(id, NullStr)
    \/ Tick

SpecUpdate == InitUpdate /\ [][NextUpdate]_vars

----------------------------------------------------------------------------
(* Delete requests racing each other and the workflow *)

DeleteIds == {1, 2}

InitDelete == InitWith(SeedStores(DeleteIds, Statuses, {50}), {TRUE})

NextDelete ==
    \/ \E p \in Procs, id \in DeleteIds : DeleteRead(p, id)
    \/ \E p \in Procs : DeleteWrite(p)
    \/ \E p \in Procs : Finish(p)
    \/ \E id \in DeleteIds, st \in Statuses : WorkflowStep(id, st)
    \/ \E id \in DeleteIds : PATCH(id, [status |-> "published"])

SpecDelete == InitDelete /\ [][NextDelete]_vars

----------------------------------------------------------------------------
(* Create requests racing each other, deletes and keyword updates, on a table *)
(* that starts empty                                                          *)

CreateIds == {1, 2, 3}

(* two keywords that differ only in letter case *)
Keywords == {"seo", "SEO"}

CreateBody(keyword) ==
    [keyword |-> keyword, planned_date |-> NULL, status |-> Undefined,
     search_volume |-> NULL, difficulty |-> NULL]

InitCreate == InitWith(SeedStores({}, {}, {}), {TRUE})

NextCreate ==
    \/ \E p \in Procs, k \in Keywords \cup {Undefined} : CreateCheck(p, CreateBody(k))
    \/ \E p \in Procs, id \in CreateIds : CreateInsert(p, id)
    \/ \E p \in Procs : Finish(p)
    \/ \E p \in Procs, id \in CreateIds : DeleteRead(p, id)
    \/ \E p \in Procs : DeleteWrite(p)
    \/ \E id \in CreateIds, k \in Keywords : PATCH(id, [keyword |-> k])

SpecCreate == InitCreate /\ [][NextCreate]_vars

----------------------------------------------------------------------------
(* Create requests with every field the insert reads, one at a time, and *)
(* deletes, on a table that starts empty                                 *)

CreateFieldsIds == {1, 2}

CreateBodies ==
    {[keyword |-> k, planned_date |-> NULL, status |-> st,
      search_volume |-> v, difficulty |-> d] :
        k \in Keywords \cup {Undefined, ""},
        st \in {Undefined, NullStr, "approved", "published"},
        v \in {NULL, 0, 40}, d \in {NULL, 0, 40, 80}}

NextCreateFields ==
    \/ \E body \in CreateBodies : CreateCheck("p1", body)
    \/ \E id \in CreateFieldsIds : CreateInsert("p1", id)
    \/ Finish("p1")
    \/ \E id \in CreateFieldsIds : DeleteRead("p1", id)
    \/ DeleteWrite("p1")

SpecCreateFields == InitCreate /\ [][NextCreateFields]_vars

----------------------------------------------------------------------------
(* The three computed columns of the lists, on every combination of inputs *)

Volumes == {NULL, 0, -10, 1, 11, 40, 1000}
Difficulties == {NULL, 0, -5, 1, 20, 29, 30, 39, 50, 51, 69, 70, 71, 80}
CompetitorCounts == {NULL, 0, 3, 4, 5, 6}

NextColumns ==
    \/ \E v \in Volumes, d \in Difficulties, c \in CompetitorCounts :
         OpportunityScore(v, d, c)
    \/ \E v \in Volumes, d \in Difficulties : EstimatedTraffic(v, d)
    \/ \E d \in Difficulties : DifficultyLabel(d)

SpecColumns == InitCreate /\ [][NextColumns]_vars

----------------------------------------------------------------------------
(* The statistics of every seeded table, with entries rescheduled to today *)

StatsIds == {1, 2}

InitStats == InitWith(SeedStores(StatsIds, Statuses, {50}), {TRUE})

NextStats ==
    \/ \E pick \in StatsIds \cup {0} : Stats(pick)
    \/ \E id \in StatsIds : rescheduleEntry(id, 0)

SpecStats == InitStats /\ [][NextStats]_vars

----------------------------------------------------------------------------
(* Every operation of the API on one entry, one request at a time, on a table *)
(* that starts empty, with no GitHub token configured                         *)

CalendarIds == {1}

InitCalendar == InitWith(SeedStores({}, {}, {}), {FALSE})

NextCalendar ==
    \/ \E d \in {NULL, 1} :
         CreateCheck("p1", [CreateBody("seo") EXCEPT !.planned_date = d])
    \/ \E id \in CalendarIds : CreateInsert("p1", id)
    \/ Finish("p1")
    \/ \E id \in CalendarIds : PATCH(id, [planned_date |-> 1])
    \/ \E id \in CalendarIds : PATCH(id, [notes |-> "n"])
    \/ \E id \in CalendarIds, approver \in {"alice", Undefined, NullStr} :
         approveEntry(id, approver)
    \/ \E id \in CalendarIds, reason \in {"r1", "r2", NullStr} : rejectEntry(id, reason)
    \/ \E id \in CalendarIds, d \in {1, NULL} : rescheduleEntry(id, d)
    \/ \E ids \in SUBSET CalendarIds, autoSchedule \in BOOLEAN :
         \E order \in Orders(BatchMatching(store, ids)) :
           BatchApprove("p1", ids, Undefined, autoSchedule, NULL, NULL, order)
    \/ BatchSchedule("p1", TRUE)
    \/ \E id \in CalendarIds : DispatchRead("p1", id)
    \/ DispatchWrite("p1")
    \/ DispatchTrigger("p1", TRUE)
    \/ \E id \in CalendarIds : DeleteRead("p1", id)
    \/ DeleteWrite("p1")

SpecCalendar == InitCalendar /\ [][NextCalendar]_vars

----------------------------------------------------------------------------
(* Claims about the lifecycle actions, read off the step just taken *)

(* the rows of the table other than id are the rows of the table before *)
OthersUntouched(id) ==
    /\ DOMAIN store = DOMAIN last.before
    /\ \A i \in DOMAIN store \ {id} : store[i] = last.before[i]

(* the last step ran the named action on an entry that was in the table *)
Ran(op) == last.op = op /\ last.id \in DOMAIN last.before

(* C1: approve changes an entry only when its status is suggested or rejected  *)
(* (status becomes approved, approved_at and approved_by are set in the same   *)
(* write); on every other status it answers InvalidTransition and leaves the   *)
(* entry as it was, so a second approve never re-sets approved_at.             *)
C1_ApproveGuarded ==
    Ran("approve") =>
        LET old == last.before[last.id]
            new == store[last.id]
        IN  /\ OthersUntouched(last.id)
            /\ IF old.status \in {"suggested", "rejected"}
               THEN /\ last.res = "ok"
                    /\ new = [old EXCEPT !.status = "approved", !.approved_at = last.at,
                                         !.approved_by = last.arg]
               ELSE /\ last.res = "InvalidTransition"
                    /\ new = old

(* C2: reject changes an entry only when its status is suggested or approved:  *)
(* status becomes rejected, approved_at and approved_by become null; on every  *)
(* other status the action fails and the entry is unchanged.                   *)
C2_RejectGuarded ==
    Ran("reject") =>
        LET old == last.before[last.id]
            new == store[last.id]
        IN  /\ OthersUntouched(last.id)
            /\ IF old.status \in {"suggested", "approved"}
               THEN /\ last.res = "ok"
                    /\ new.status = "rejected"
                    /\ new.approved_at = NULL
                    /\ new.approved_by = NullStr
                    /\ new.planned_date = old.planned_date
                    /\ new.keyword = old.keyword
               ELSE /\ last.res # "ok"
                    /\ new = old

(* an approved entry, with its approval stamp, was rejected *)
C2_Witness ==
    /\ Ran("reject") /\ last.res = "ok"
    /\ last.before[last.id].status = "approved"
    /\ last.before[last.id].approved_at # NULL

(* C3: reschedule with no date answers MissingDate and writes nothing; with a  *)
(* date it answers InvalidTransition and leaves the entry unchanged unless the *)
(* status is approved or scheduled, and then it sets planned_date to the date  *)
(* and status to scheduled.                                                    *)
C3_RescheduleGuarded ==
    Ran("reschedule") =>
        LET old == last.before[last.id]
            new == store[last.id]
        IN  /\ OthersUntouched(last.id)
            /\ IF last.arg = NULL
               THEN last.res = "MissingDate" /\ new = old
               ELSE IF old.status \in {"approved", "scheduled"}
               THEN /\ last.res = "ok"
                    /\ new = [old EXCEPT !.planned_date = last.arg, !.status = "scheduled"]
               ELSE /\ last.res = "InvalidTransition"
                    /\ new = old


----------------------------------------------------------------------------
(* Dispatch requests racing each other, the lifecycle actions and the workflow *)

DispatchIds == {1}

InitDispatch == InitWith(SeedStores(DispatchIds, Statuses, {50}), BOOLEAN)

NextDispatch ==
    \/ \E p \in Procs, id \in DispatchIds : DispatchRead(p, id)
    \/ \E p \in Procs : DispatchWrite(p)
    \/ \E p \in Procs, accepted \in BOOLEAN : DispatchTrigger(p, accepted)
    \/ \E p \in Procs : Finish(p)
    \/ \E id \in DispatchIds : approveEntry(id, Undefined)
    \/ \E id \in DispatchIds : rejectEntry(id, NullStr)
    \/ \E id \in DispatchIds : rescheduleEntry(id, 1)
    \/ \E id \in DispatchIds, st \in Statuses : WorkflowStep(id, st)

SpecDispatch == InitDispatch /\ [][NextDispatch]_vars


----------------------------------------------------------------------------
(* Claims about the dispatcher and about racing writes *)

(* the status an operation's write requires, by the lifecycle of the spec *)
Precondition(op) ==
    CASE op = "approve" -> {"suggested", "rejected"}
      [] op = "reject" -> {"suggested", "approved"}
      [] op = "reschedule" -> {"approved", "scheduled"}
      [] op = "batch_schedule" -> {"approved", "scheduled"}
      [] op = "dispatch_write" -> {"suggested", "approved", "scheduled"}
      [] OTHER -> Statuses

(* C4: in every interleaving, a status write of approve, reject, reschedule,   *)
(* dispatch or auto-schedule is persisted only if the entry's status at the    *)
(* moment of the write is in that operation's precondition set.                *)
C4_WritesAreConditional ==
    (Ran(last.op) /\ store[last.id] # last.before[last.id]) =>
        last.before[last.id].status \in Precondition(last.op)

(* C5: dispatch on a suggested, approved or scheduled entry sets status to     *)
(* generating and sets generation_started_at; dispatch on any other status     *)
(* fails, leaves the entry unchanged and makes no external call.               *)
C5_DispatchGuard ==
    /\ Ran("dispatch_read") =>
          LET me == procs[last.proc]
          IN  /\ store = last.before
              /\ IF last.before[last.id].status \in {"suggested", "approved", "scheduled"}
                 THEN me.pc = "write"
                 ELSE me.pc = "done" /\ me.res \notin {"ok", "none"}
    /\ Ran("dispatch_write") =>
          /\ OthersUntouched(last.id)
          /\ store[last.id] = [last.before[last.id] EXCEPT
                                  !.status = "generating",
                                  !.generation_started_at = last.at]
    /\ \A p \in Procs :
          (procs[p].op = "dispatch" /\ procs[p].pc = "done" /\ procs[p].res # "ok") =>
              ~procs[p].wrote /\ procs[p].called = "none"

(* a scheduled entry was moved to generating by a dispatch *)
C5_Witness ==
    /\ Ran("dispatch_write")
    /\ last.before[last.id].status = "scheduled"
    /\ store[last.id].status = "generating"
    /\ store[last.id].generation_started_at # NULL

(* C6: dispatch on an entry already in generating answers AlreadyGenerating,   *)
(* distinct from the InvalidTransition of in_progress, published, failed and   *)
(* rejected, and makes no external call.                                       *)
C6_AlreadyGeneratingDistinct ==
    Ran("dispatch_read") =>
        /\ last.before[last.id].status = "generating" =>
              /\ last.res = "AlreadyGenerating"
              /\ procs[last.proc].called = "none"
        /\ last.before[last.id].status \in {"in_progress", "published", "failed", "rejected"} =>
              last.res = "InvalidTransition"

(* C7: for any number of dispatch requests on one entry, in any interleaving,  *)
(* the external job runner is triggered at most once for the entry.            *)
C7_TriggeredAtMostOnce ==
    \A i \in DOMAIN triggered : triggered[i] <= 1

(* C8: the write to generating precedes the external trigger, and a failed or  *)
(* skipped trigger leaves the table as it is and still answers success.        *)
C8_WriteBeforeTrigger ==
    /\ \A p \in Procs :
          (procs[p].op = "dispatch" /\ (procs[p].pc = "trigger" \/ procs[p].called # "none"))
              => procs[p].wrote
    /\ last.op = "dispatch_trigger" =>
          /\ store = last.before
          /\ last.res = "ok"
          /\ procs[last.proc].pc = "done" /\ procs[last.proc].res = "ok"

(* the trigger failed on an entry the dispatcher had moved to generating *)
C8_Witness ==
    /\ Ran("dispatch_trigger") /\ last.arg = "failed"
    /\ store[last.id].status = "generating"
    /\ procs[last.proc].res = "ok"


----------------------------------------------------------------------------
(* Claims about batch approval and the auto-scheduler *)

(* the last step was the bulk approval of a valid batch request *)
BulkApproved == last.op = "batch_approve" /\ last.res = "ok"

(* the ids a sequence of returned rows or of scheduled updates names *)
IdsOf(seq) == {seq[k].id : k \in DOMAIN seq}

(* C9: batch approval moves exactly the requested ids whose status is          *)
(* suggested or rejected at the bulk write to approved, with approved_at and   *)
(* approved_by set; every other entry is unchanged and left out of             *)
(* approvedEntries without an error; failedCount = |ids| - |approvedEntries|.  *)
C9_BatchApproveExact ==
    BulkApproved =>
        LET me == procs[last.proc]
            old == last.before
            due == {i \in me.ids \cap DOMAIN old : old[i].status \in {"suggested", "rejected"}}
        IN  /\ DOMAIN store = DOMAIN old
            /\ IdsOf(me.approved) = due
            /\ Len(me.approved) = Cardinality(due)
            /\ \A i \in due :
                  /\ last.arg # NullStr
                  /\ store[i] = [old[i] EXCEPT !.status = "approved",
                                               !.approved_at = last.at,
                                               !.approved_by = last.arg]
            /\ \A i \in DOMAIN old \ due : store[i] = old[i]
            /\ me.failed = Cardinality(me.ids) - Len(me.approved)
            /\ me.res \in {"ok", "none"}

(* a batch that approved some of its ids and left out an approved one and a missing one *)
C9_Witness ==
    /\ BulkApproved
    /\ Len(procs[last.proc].approved) > 0
    /\ \E i \in procs[last.proc].ids : i \notin DOMAIN store
    /\ \E i \in procs[last.proc].ids \cap DOMAIN store : last.before[i].status = "approved"
    /\ procs[last.proc].failed >= 2

(* the calendar day the auto-scheduler starts from *)
FirstDay(body, t) ==
    IF body.schedule_start_date = NULL THEN (t \div DayLen) + 1 ELSE body.schedule_start_date

(* C10: with perDay >= 1 the entry at 0-based position k of the priority-sorted *)
(* approved list is given startDate + floor(k / perDay) days, so no date gets   *)
(* more than perDay entries of the batch and no day between used days is empty. *)
C10_DateByPosition ==
    /\ (last.op = "batch_schedule" /\ last.res = "ok") =>
          /\ store[last.id].planned_date = last.arg
          /\ store[last.id].status = "scheduled"
    /\ (BulkApproved /\ procs[last.proc].body # <<>>) =>
        LET me == procs[last.proc]
            perDay == me.body.per_day
            first == FirstDay(me.body, last.at)
            n == Len(me.queue)
            score(k) == LET ps == last.before[me.queue[k].id].priority_score
                        IN  IF ps = NULL THEN 0 ELSE ps
        IN  (me.body.auto_schedule /\ perDay >= 1) =>
              /\ IdsOf(me.queue) = IdsOf(me.approved) /\ n = Len(me.approved)
              /\ \A j, k \in 1..n : j < k => score(j) >= score(k)
              /\ \A k \in 1..n : me.queue[k].planned_date = first + ((k - 1) \div perDay)
              /\ \A k \in 1..n :
                    Cardinality({j \in 1..n : me.queue[j].planned_date
                                                = me.queue[k].planned_date}) <= perDay
              /\ \A k \in 1..n : me.queue[k].planned_date \in first..(first + n - 1)
              /\ \A k \in 2..n : me.queue[k].planned_date - me.queue[k - 1].planned_date
                                    \in {0, 1}

(* three entries approved with two per day from day 2: the dates are 2, 2, 3 *)
C10_Witness ==
    /\ BulkApproved /\ procs[last.proc].body # <<>>
    /\ procs[last.proc].body.per_day = 2
    /\ procs[last.proc].body.schedule_start_date = 2
    /\ Len(procs[last.proc].queue) = 3
    /\ procs[last.proc].queue[1].planned_date = 2
    /\ procs[last.proc].queue[2].planned_date = 2
    /\ procs[last.proc].queue[3].planned_date = 3
    /\ last.before[procs[last.proc].queue[1].id].priority_score = 50
    /\ last.before[procs[last.proc].queue[3].id].priority_score = 10


(* the score the scheduler sorts an entry by, null counted as 0 *)
SortScore(S, id) == IF S[id].priority_score = NULL THEN 0 ELSE S[id].priority_score

(* the position of an id in a sequence of returned rows or of updates *)
PositionOf(seq, id) == CHOOSE k \in DOMAIN seq : seq[k].id = id

(* C11: the auto-scheduler processes the approved entries in descending        *)
(* priority_score, a null score counted as 0 and equal scores kept in the      *)
(* order the bulk approval returned them; so an entry with a strictly higher   *)
(* score never gets a later date than one with a lower score in the same batch.*)
C11_PriorityOrder ==
    /\ \A p \in Procs : procs[p].op = "batch" =>
          LET n == Len(procs[p].scheduledUpdates)
              m == Len(procs[p].queue)
          IN  m <= n /\ procs[p].queue = SubSeq(procs[p].scheduledUpdates, n - m + 1, n)
    /\ (BulkApproved /\ procs[last.proc].body # <<>> /\ procs[last.proc].body.auto_schedule) =>
          LET me == procs[last.proc]
              n == Len(me.scheduledUpdates)
              score(k) == SortScore(last.before, me.scheduledUpdates[k].id)
              returned(k) == PositionOf(me.approved, me.scheduledUpdates[k].id)
          IN  /\ IdsOf(me.scheduledUpdates) = IdsOf(me.approved) /\ n = Len(me.approved)
              /\ \A j, k \in 1..n : j < k => score(j) >= score(k)
              /\ \A j, k \in 1..n : (j < k /\ score(j) = score(k)) => returned(j) < returned(k)
              /\ \A j, k \in 1..n : score(j) > score(k) =>
                     me.scheduledUpdates[j].planned_date <= me.scheduledUpdates[k].planned_date

(* a null score and a score of 0 tie: the entry returned first, id 2 with the *)
(* null score, is scheduled first, one per day                                *)
C11_Witness ==
    /\ BulkApproved /\ procs[last.proc].body # <<>>
    /\ LET me == procs[last.proc]
       IN  /\ Len(me.scheduledUpdates) = 2
           /\ me.approved[1].id = 2 /\ me.approved[1].row.priority_score = NULL
           /\ me.approved[2].id = 1 /\ me.approved[2].row.priority_score = 0
           /\ me.scheduledUpdates[1].id = 2
           /\ me.scheduledUpdates[1].planned_date < me.scheduledUpdates[2].planned_date

(* C12: each auto-schedule assignment is a conditional update, applied only if *)
(* the entry is still approved (or scheduled) when it is written; an entry a   *)
(* concurrent request rejected, dispatched or deleted between the bulk         *)
(* approval and its scheduling write is not turned into scheduled and is       *)
(* omitted from scheduledEntries.                                              *)
C12_ScheduleWriteConditional ==
    (last.op = "batch_schedule" /\ last.res # "refused") =>
        LET me == procs[last.proc]
            still == /\ last.id \in DOMAIN last.before
                     /\ last.before[last.id].status \in {"approved", "scheduled"}
        IN  IF still
            THEN /\ store[last.id].status = "scheduled"
                 /\ store[last.id].planned_date = last.arg
                 /\ last.id \in IdsOf(me.scheduled)
            ELSE /\ store = last.before
                 /\ last.id \notin IdsOf(me.scheduled)

(* C13: a failed scheduling write affects only its own entry, which stays as  *)
(* the bulk approval left it (approved, planned_date unchanged) and is omitted *)
(* from scheduledEntries; every other entry is still written with the date of  *)
(* its own position, the bulk approval is not rolled back and the batch still  *)
(* answers success.                                                            *)
C13_FailedWriteIsLocal ==
    /\ \A p \in Procs :
          (procs[p].op = "batch" /\ procs[p].pc = "done" /\ procs[p].ids # {}) =>
              procs[p].res = "ok" /\ procs[p].queue = <<>>
    /\ last.op = "batch_schedule" =>
          LET me == procs[last.proc]
              k == Len(me.scheduledUpdates) - Len(me.queue)
              update == me.scheduledUpdates[k]
              old == last.before
          IN  /\ k \in 1..Len(me.scheduledUpdates)
              /\ update.id = last.id /\ update.planned_date = last.arg
              /\ update.planned_date
                    = FirstDay(me.body, last.at) + ((k - 1) \div me.body.per_day)
              /\ me.pc = IF k = Len(me.scheduledUpdates) THEN "done" ELSE "schedule"
              /\ last.res = "refused" =>
                    /\ store = old
                    /\ last.id \notin IdsOf(me.scheduled)
              /\ (last.res # "refused" /\ last.id \in DOMAIN old) =>
                    /\ last.res = "ok"
                    /\ OthersUntouched(last.id)
                    /\ store[last.id] = [old[last.id] EXCEPT
                                            !.planned_date = update.planned_date,
                                            !.status = "scheduled"]
                    /\ \E j \in DOMAIN me.scheduled :
                          me.scheduled[j] = [id |-> last.id, row |-> store[last.id]]

(* one entry per day: the first write was refused and its entry is still        *)
(* approved without a date, the second entry got the second day and the batch   *)
(* answered success                                                             *)
C13_Witness ==
    /\ last.op = "batch_schedule" /\ last.res = "ok"
    /\ LET me == procs[last.proc]
       IN  /\ Len(me.scheduledUpdates) = 2 /\ me.queue = <<>> /\ me.body.per_day = 1
           /\ IdsOf(me.scheduled) = {me.scheduledUpdates[2].id}
           /\ me.scheduledUpdates[1].id \in DOMAIN store
           /\ store[me.scheduledUpdates[1].id].status = "approved"
           /\ store[me.scheduledUpdates[1].id].approved_at # NULL
           /\ store[me.scheduledUpdates[1].id].planned_date = NULL
           /\ store[last.id].planned_date = me.scheduledUpdates[1].planned_date + 1
           /\ me.pc = "done" /\ me.res = "ok"

(* C14: with autoSchedule false (or absent) the batch returns an empty         *)
(* scheduledEntries, changes no planned_date and moves no entry to scheduled:  *)
(* the approved entries end in approved.                                       *)
C14_NoAutoSchedule ==
    /\ last.op = "batch_schedule" => procs[last.proc].body.auto_schedule
    /\ (BulkApproved /\ procs[last.proc].body # <<>>
                     /\ ~procs[last.proc].body.auto_schedule) =>
          LET me == procs[last.proc]
          IN  /\ me.pc = "done" /\ me.res = "ok"
              /\ me.scheduled = <<>> /\ me.scheduledUpdates = <<>> /\ me.queue = <<>>
              /\ \A i \in DOMAIN store :
                    /\ store[i].planned_date = last.before[i].planned_date
                    /\ store[i].status = "scheduled" => last.before[i].status = "scheduled"
              /\ \A i \in IdsOf(me.approved) : store[i].status = "approved"

(* two entries approved in a batch without auto_schedule: the request is over *)
(* and both are approved, without a date                                      *)
C14_Witness ==
    /\ BulkApproved /\ procs[last.proc].body # <<>>
    /\ ~procs[last.proc].body.auto_schedule
    /\ Len(procs[last.proc].approved) = 2
    /\ procs[last.proc].pc = "done"
    /\ \A i \in IdsOf(procs[last.proc].approved) :
          store[i].status = "approved" /\ store[i].planned_date = NULL

----------------------------------------------------------------------------
(* Claims about deletion *)

(* C15: a delete of an entry that is published fails with Immutable and leaves *)
(* the entry unchanged; a delete of an existing entry in any other status      *)
(* removes it and reports success.                                             *)
C15_DeleteGuard ==
    /\ Ran("delete_read") =>
          LET me == procs[last.proc]
          IN  /\ store = last.before
              /\ IF last.before[last.id].status = "published"
                 THEN /\ last.res = "Immutable"
                      /\ me.pc = "done" /\ me.res = "Immutable" /\ ~me.wrote
                 ELSE me.pc = "write"
    /\ \A p \in Procs :
          (procs[p].op = "delete" /\ procs[p].pc = "done" /\ procs[p].res # "ok") =>
              ~procs[p].wrote
    /\ last.op = "delete_write" =>
          LET me == procs[last.proc]
          IN  /\ last.id \notin DOMAIN store
              /\ DOMAIN store = DOMAIN last.before \ {last.id}
              /\ \A i \in DOMAIN store : store[i] = last.before[i]
              /\ last.res = "ok" /\ me.pc = "done" /\ me.res = "ok"

(* a scheduled entry was deleted and the published entry beside it is intact *)
C15_Witness ==
    /\ Ran("delete_write") /\ last.res = "ok"
    /\ last.before[last.id].status = "scheduled"
    /\ last.id \notin DOMAIN store
    /\ \E i \in DOMAIN store : store[i].status = "published"

(* C16: a published entry stays in the store: no delete removes it, not even *)
(* a delete that runs concurrently with the step that publishes the entry.   *)
C16_PublishedNeverDeleted ==
    \A i \in DOMAIN last.before :
        last.before[i].status = "published" => i \in DOMAIN store

----------------------------------------------------------------------------
(* Claims about creation *)

(* C20: a create whose keyword equals, case-sensitively, the keyword of an    *)
(* entry in the store fails with DuplicateKey and inserts nothing; a keyword  *)
(* that differs from every stored one, if only in letter case, is accepted.   *)
C20_DuplicateKey ==
    /\ (last.op = "create_check" /\ last.res # "ValidationError") =>
          LET me == procs[last.proc]
              taken == \E i \in DOMAIN last.before : last.before[i].keyword = last.arg
          IN  /\ store = last.before
              /\ IF taken
                 THEN last.res = "DuplicateKey" /\ me.pc = "done" /\ ~me.wrote
                 ELSE last.res = "ok" /\ me.pc = "insert"
    /\ \A p \in Procs :
          (procs[p].op = "create" /\ procs[p].pc = "done" /\ procs[p].res # "ok") =>
              ~procs[p].wrote
    /\ last.op = "create_insert" =>
          /\ DOMAIN store = DOMAIN last.before \cup {last.id}
          /\ last.id \notin DOMAIN last.before
          /\ store[last.id].keyword = last.arg
          /\ \A i \in DOMAIN last.before : store[i] = last.before[i]

----------------------------------------------------------------------------
(* Claims about the fields of an entry across all operations *)

(* C17: after any sequence of create, update, approve, reject, reschedule,   *)
(* batch approval, dispatch and delete, an entry has a planned_date only if  *)
(* its status is scheduled, generating, in_progress or published.            *)
C17_DateOnlyWhenScheduled ==
    \A i \in DOMAIN store :
        store[i].planned_date # NULL =>
            store[i].status \in {"scheduled", "generating", "in_progress", "published"}

(* the approval stamp of a row *)
Stamped(row) == row.approved_at # NULL /\ row.approved_by # NullStr
Unstamped(row) == row.approved_at = NULL /\ row.approved_by = NullStr

(* C18: approved_at and approved_by are both set exactly when the entry has *)
(* been approved, singly or in a batch, and not rejected since; otherwise   *)
(* both are null, and never one without the other. Step by step: a new row  *)
(* has no stamp, an approval sets it, a rejection clears it and nothing     *)
(* else changes it.                                                         *)
C18_ApprovalStamps ==
    /\ \A i \in DOMAIN store : Stamped(store[i]) \/ Unstamped(store[i])
    /\ \A i \in DOMAIN store \ DOMAIN last.before : Unstamped(store[i])
    /\ \A i \in DOMAIN store \cap DOMAIN last.before :
          LET approvedNow ==
                  \/ last.op = "approve" /\ last.res = "ok" /\ last.id = i
                  \/ BulkApproved /\ i \in IdsOf(procs[last.proc].approved)
              rejectedNow == last.op = "reject" /\ last.res = "ok" /\ last.id = i
          IN  Stamped(store[i]) <=>
                  (approvedNow \/ (Stamped(last.before[i]) /\ ~rejectedNow))

(* C19: no lifecycle action clears decline_reason: approve, reschedule, batch *)
(* approval, scheduling and dispatch leave it as it is, and so does a reject  *)
(* without a reason; a reject with a reason sets it to that reason.           *)
C19_DeclineReasonKept ==
    last.op \in {"approve", "reject", "reschedule", "batch_approve", "batch_schedule",
                 "dispatch_read", "dispatch_write", "dispatch_trigger"} =>
        /\ DOMAIN store = DOMAIN last.before
        /\ \A i \in DOMAIN store :
              IF /\ last.op = "reject" /\ last.res = "ok" /\ last.id = i
                 /\ last.arg \notin {NullStr, Undefined, ""}
              THEN store[i].decline_reason = last.arg
              ELSE store[i].decline_reason = last.before[i].decline_reason

(* an entry rejected with reason r1 and approved again is rejected without a *)
(* reason: it is rejected and its decline_reason is still r1                 *)
C19_Witness ==
    /\ Ran("reject") /\ last.res = "ok" /\ last.arg = NullStr
    /\ last.before[last.id].status = "approved"
    /\ last.before[last.id].approved_at # NULL
    /\ last.before[last.id].decline_reason = "r1"
    /\ store[last.id].status = "rejected"
    /\ store[last.id].decline_reason = "r1"

(* C21: no two entries in the store have the same keyword, in every           *)
(* interleaving of create, update and delete requests, two concurrent creates *)
(* of one keyword included.                                                   *)
C21_KeywordUnique ==
    \A i, j \in DOMAIN store : i # j => store[i].keyword # store[j].keyword

(* C22: every entry the create operation inserts starts in suggested with     *)
(* approved_at and approved_by null, whatever the request carries; a request  *)
(* without a keyword gets a validation error and inserts nothing.             *)
C22_CreatedSuggested ==
    /\ last.op = "create_insert" =>
          /\ store[last.id].status = "suggested"
          /\ Unstamped(store[last.id])
    /\ (last.op = "create_check" /\ last.arg \in {Undefined, NullStr, ""}) =>
          /\ last.res = "ValidationError"
          /\ store = last.before
          /\ procs[last.proc].pc = "done" /\ ~procs[last.proc].wrote

----------------------------------------------------------------------------
(* Claims about the computed columns *)

(* C23: the opportunity score is an integer in [0,100] for every volume,    *)
(* difficulty and competitor count, and 0 whenever volume or difficulty is  *)
(* null or zero.                                                            *)
C23_ScoreRange ==
    last.op = "opportunity_score" =>
        /\ last.res \in 0..100
        /\ (last.arg[1] \in {NULL, 0} \/ last.arg[2] \in {NULL, 0}) => last.res = 0

(* the value the score rounds, as the fraction num / den with den > 0, from *)
(* the three factors as the claim gives them                                *)
ScoreNum(v, d, c) ==
    v * 10 * (IF ToNumber(c) <= 3 THEN 15 ELSE IF ToNumber(c) <= 5 THEN 12 ELSE 10)
           * (IF 30 <= d /\ d <= 50 THEN 13 ELSE 10)
           * (IF d > 70 THEN 5 ELSE 10)
ScoreDen(d) == (IF d >= 1 THEN d ELSE 1) * 1000

(* the last step scored a non-zero volume and difficulty *)
ScoredNonZero ==
    /\ last.op = "opportunity_score"
    /\ last.arg[1] \notin {NULL, 0} /\ last.arg[2] \notin {NULL, 0}

(* C24, as amended: for non-zero volume and difficulty the score is 100 when  *)
(* (volume / max(difficulty,1)) * 10 * c * s * p exceeds 100 and otherwise an *)
(* integer within one half of that value, so the nearest integer and, at an   *)
(* exact half, one of the two neighbours.                                     *)
C24_ScoreNearest ==
    ScoredNonZero =>
        LET num == ScoreNum(last.arg[1], last.arg[2], last.arg[3])
            den == ScoreDen(last.arg[2])
        IN  IF num > 100 * den THEN last.res = 100
            ELSE /\ 2 * den * last.res - 2 * num <= den
                 /\ 2 * num - 2 * den * last.res <= den

(* C24, as stated: the score equals round(min(100, value)), a half rounded up *)
C24_ScoreRoundHalfUp ==
    ScoredNonZero =>
        LET num == ScoreNum(last.arg[1], last.arg[2], last.arg[3])
            den == ScoreDen(last.arg[2])
        IN  last.res = IF num > 100 * den THEN 100 ELSE (2 * num + den) \div (2 * den)

(* volume 11, difficulty 39, three competitors: the value is 5.5, the score 5 *)
C24_Witness ==
    /\ ScoredNonZero
    /\ last.arg = <<11, 39, 3>>
    /\ 2 * ScoreNum(11, 39, 3) = 11 * ScoreDen(39)
    /\ last.res = 5

(* C25: the difficulty label is Unknown exactly for a null difficulty, and for *)
(* a non-null d it is Easy below 30, Medium from 30 below 50, Hard from 50     *)
(* below 70 and Very Hard from 70.                                             *)
C25_DifficultyLabel ==
    last.op = "difficulty_label" =>
        LET d == last.arg[1]
        IN  last.res = IF d = NULL THEN "Unknown"
                       ELSE IF d < 30 THEN "Easy"
                       ELSE IF d < 50 THEN "Medium"
                       ELSE IF d < 70 THEN "Hard"
                       ELSE "Very Hard"

(* the last step estimated the traffic of a volume at a non-null difficulty *)
EstimatedAt == last.op = "estimated_traffic" /\ last.arg[2] # NULL

(* the click-through rate of the claim, in thousandths *)
ClaimedCTR(d) == IF d < 30 THEN 100 ELSE IF d < 50 THEN 50 ELSE IF d < 70 THEN 20 ELSE 5

(* the estimate is round(volume * ctr), 0 for a null or zero volume *)
TrafficAsClaimed ==
    LET v == last.arg[1]
        x == v * ClaimedCTR(last.arg[2])
    IN  IF v \in {NULL, 0} THEN last.res = 0
        ELSE /\ 2000 * last.res <= 2 * x + 1000
             /\ 2 * x + 1000 < 2000 * last.res + 2000

(* no higher difficulty of the model gives the same volume a higher estimate *)
TrafficNeverIncreases ==
    \A d \in Difficulties \ {NULL} :
        d >= last.arg[2] => calculateEstimatedTraffic(last.arg[1], d) <= last.res

(* C26, as amended: the estimated traffic is 0 for a null or zero volume and *)
(* otherwise round(volume * ctr) with ctr 0.10, 0.05, 0.02, 0.005 by         *)
(* difficulty; for a fixed volume that is not negative it never increases as *)
(* the difficulty grows.                                                     *)
C26_TrafficByDifficulty ==
    EstimatedAt =>
        /\ TrafficAsClaimed
        /\ (last.arg[1] = NULL \/ last.arg[1] >= 0) => TrafficNeverIncreases

(* C26, as stated: the same, for every fixed volume *)
C26_TrafficMonotoneForAll ==
    EstimatedAt => (TrafficAsClaimed /\ TrafficNeverIncreases)

(* volume 1000 at difficulty 69 is estimated at 20, and at 5 from difficulty 70 *)
C26_Witness ==
    /\ EstimatedAt
    /\ last.arg = <<1000, 69>>
    /\ last.res = 20
    /\ calculateEstimatedTraffic(1000, 70) = 5

----------------------------------------------------------------------------
(* Claims about the statistics *)

(* C27: the stats operation returns one count for each of the eight lifecycle *)
(* states, each the number of entries now in that state, so the counts sum to *)
(* the number of entries in the store.                                        *)
C27_StatsCountEveryStatus ==
    last.op = "stats" =>
        /\ DOMAIN last.res.counts = Statuses
        /\ \A st \in DOMAIN last.res.counts :
              last.res.counts[st] = Cardinality({i \in DOMAIN store : store[i].status = st})
        /\ \A i \in DOMAIN store : store[i].status \in DOMAIN last.res.counts

----------------------------------------------------------------------------
(* Claims about two batch approvals of overlapping id sets *)

(* the ids of the entries a request's bulk update returned *)
ApprovedEntries(p) == {procs[p].approved[k].id : k \in DOMAIN procs[p].approved}

(* the ids a request computed a planned_date for *)
DatedEntries(p) == {procs[p].scheduledUpdates[k].id : k \in DOMAIN procs[p].scheduledUpdates}

BothBatchesDone == \A p \in Procs : procs[p].op = "batch" /\ procs[p].pc = "done"

(* the row is as it was seeded: no request has approved it *)
NeverApproved(id) == store[id].approved_by = NullStr /\ store[id].approved_at = NULL

(* C28: two batch approvals with overlapping id sets, in any interleaving and *)
(* with no other operation: every requested entry that started suggested or  *)
(* rejected is in the approved entries of exactly one request, its final     *)
(* approved_by is that request's approver, only that request computes a      *)
(* planned_date for it, and every request counts in failedCount each of its  *)
(* ids that it did not approve itself.                                       *)
C28_OneRequestApprovesEach ==
    BothBatchesDone =>
        /\ \A id \in (procs["p1"].ids \cup procs["p2"].ids) \cap DOMAIN store :
              LET owners == {p \in Procs : id \in ApprovedEntries(p)}
              IN  IF NeverApproved(id)
                  THEN store[id].status = "approved" /\ owners = {}
                  ELSE \E p \in Procs :
                         /\ owners = {p}
                         /\ id \in procs[p].ids
                         /\ store[id].approved_by = PairApprover[p]
                         /\ store[id].status \in {"approved", "scheduled"}
                         /\ store[id].planned_date # NULL => id \in DatedEntries(p)
                         /\ \A q \in Procs \ {p} : id \notin DatedEntries(q)
        /\ \A p \in Procs :
              procs[p].failed = Cardinality(procs[p].ids \ ApprovedEntries(p))

(* both requests name entry 1, which started approvable: the second request *)
(* approved and scheduled it and the first counts it as failed              *)
C28_Witness ==
    /\ BothBatchesDone
    /\ 1 \in procs["p1"].ids \cap procs["p2"].ids
    /\ 1 \in ApprovedEntries("p2") \ ApprovedEntries("p1")
    /\ store[1].approved_by = "bob" /\ store[1].status = "scheduled"
    /\ 2 \in ApprovedEntries("p1")
    /\ procs["p1"].failed = 1

----------------------------------------------------------------------------
(* Claims about requests on an id that is not in the table *)

(* the last step answered a request of this kind on an id that was not in *)
(* the table when the step ran                                            *)
AnsweredUnknown(op) == last.op = op /\ last.id \notin DOMAIN last.before

(* C29: approve, reject, reschedule, delete and dispatch on an id that is not *)
(* in the store each answer NotFound (not success, InvalidTransition or an    *)
(* internal error) and change no entry; dispatch makes no external call.      *)
C29_UnknownIdNotFound ==
    /\ \A op \in {"approve", "reject", "reschedule", "delete_write", "dispatch_read"} :
          AnsweredUnknown(op) => last.res = "NotFound" /\ store = last.before
    /\ AnsweredUnknown("dispatch_read") =>
          procs[last.proc].pc = "done" /\ procs[last.proc].called = "none"

----------------------------------------------------------------------------
(* Claims about the regular update *)

(* C30: an update request with no action never changes an entry's status,   *)
(* approved_at or approved_by, and never changes which ids are in the table: *)
(* status moves only through the lifecycle operations.                       *)
C30_UpdateKeepsLifecycle ==
    Ran("update") =>
        /\ DOMAIN store = DOMAIN last.before
        /\ store[last.id].status = last.before[last.id].status
        /\ store[last.id].approved_at = last.before[last.id].approved_at
        /\ store[last.id].approved_by = last.before[last.id].approved_by

====
